---- MODULE Spec2Model ----
(***************************************************************************)
(* A model of src/main.py: the AdvancedProgressBar, perform_cycles,        *)
(* calculate_performance_metrics, display_predictions and main.            *)
(*                                                                         *)
(* Numbers.  Python floats that are only displayed or compared with        *)
(* thresholds are modelled as exact rationals (records k/n/d).  The one    *)
(* place where a float is truncated to an integer, int(bar_length *        *)
(* progress), is modelled as IEEE-754 binary64 arithmetic on the bits of   *)
(* the mantissa (53 bits, round to nearest, ties to even).                 *)
(*                                                                         *)
(* Time.  The clocks (time.time, time.perf_counter_ns, time.process_time)  *)
(* are one counter `now` of whole ticks that the environment advances.     *)
(***************************************************************************)
EXTENDS Integers, Sequences, FiniteSets, TLC

VARIABLES
    now,              \* the clock, in ticks
    total,            \* AdvancedProgressBar.total
    bar_length,       \* AdvancedProgressBar.bar_length
    start_time,       \* AdvancedProgressBar.start_time
    current,          \* AdvancedProgressBar.current
    iteration_times,  \* AdvancedProgressBar.iteration_times
    line,             \* the fields of the last progress line written
    error,            \* the exception in flight or caught ("none" when none)
    recorded,         \* update calls with current > 0 made by a direct caller
    pc,               \* position of the control flow
    num_cycles,       \* perform_cycles / main: num_cycles
    batch_size,       \* perform_cycles: batch_size
    i,                \* perform_cycles: loop variable
    updates,          \* values perform_cycles passed to update, in order
    cycle_times,      \* performance_data['cycle_times']
    typed,            \* the line the last input() of main returned
    cycles_input,     \* main: the last text read by the cycle prompt
    confirm,          \* main: the confirmation answer after .lower()
    perf,             \* perform_cycles: the clock read at the start, the result
    metrics,          \* the dict calculate_performance_metrics returned
    predictions,      \* the lines display_predictions printed
    output            \* which closing message the program printed

vars == <<now, total, bar_length, start_time, current, iteration_times, line,
          error, recorded, pc, num_cycles, batch_size, i, updates, cycle_times,
          typed, cycles_input, confirm, perf, metrics, predictions, output>>

barVars == <<total, bar_length, start_time, current, iteration_times, line>>
cycleVars == <<num_cycles, batch_size, i, updates, cycle_times, perf>>
mainVars == <<typed, cycles_input, confirm, output>>
reportVars == <<metrics, predictions>>

(***************************************************************************)
(* Bounds of the model.                                                    *)
(***************************************************************************)
MaxClock == 2          \* ticks of the clock while a caller drives the bar
MaxRunClock == 1       \* ticks of the clock during a long series of updates
MaxCalls == 3          \* recording update calls of a direct caller
MaxTotal == 3          \* largest total of a bar driven by a direct caller
MaxRenderTotal == 22   \* largest total where one call is rendered
MaxRenderCalls == 1    \* recording update calls when one call is rendered
MaxSamples == 102      \* recording update calls when the buffer is filled
MaxCycles == 24        \* largest small cycle count run step by step

(***************************************************************************)
(* Exact rational arithmetic with Python's ZeroDivisionError.              *)
(***************************************************************************)
Limit == 2^30

Abs(x) == IF x < 0 THEN -x ELSE x

RECURSIVE Gcd(_, _)
Gcd(a, b) == IF b = 0 THEN a ELSE Gcd(b, a % b)

Num(n, d) ==
    LET g == Gcd(Abs(n), d)
    IN  [k |-> "num", n |-> n \div g, d |-> d \div g]

Whole(x) == [k |-> "num", n |-> x, d |-> 1]

ZeroDivisionError == [k |-> "ZeroDivisionError", n |-> 0, d |-> 1]

\* A value outside the range the model computes exactly.
Inexact == [k |-> "inexact", n |-> 0, d |-> 1]

IsError(a) == a.k = "ZeroDivisionError"

Fits(a, b) == b = 0 \/ Abs(a) <= Limit \div Abs(b)

Lift(a, b, v) ==
    IF IsError(a) \/ IsError(b) THEN ZeroDivisionError
    ELSE IF a.k = "inexact" \/ b.k = "inexact" THEN Inexact
    ELSE v

\* a * b, reduced across before multiplying
RMul(a, b) ==
    Lift(a, b, LET g1 == Gcd(Abs(a.n), b.d)
                   g2 == Gcd(Abs(b.n), a.d)
                   an == a.n \div g1
                   bn == b.n \div g2
                   ad == a.d \div g2
                   bd == b.d \div g1
               IN  IF Fits(an, bn) /\ Fits(ad, bd)
                   THEN [k |-> "num", n |-> an * bn, d |-> ad * bd]
                   ELSE Inexact)

RAdd(a, b) ==
    Lift(a, b, IF a.d = b.d
               THEN (IF Abs(a.n) <= Limit /\ Abs(b.n) <= Limit
                     THEN Num(a.n + b.n, a.d) ELSE Inexact)
               ELSE IF Fits(a.n, b.d) /\ Fits(b.n, a.d) /\ Fits(a.d, b.d)
               THEN Num(a.n * b.d + b.n * a.d, a.d * b.d) ELSE Inexact)

RSub(a, b) == RAdd(a, [b EXCEPT !.n = -b.n])

RDiv(a, b) ==
    IF IsError(a) \/ IsError(b) THEN ZeroDivisionError
    ELSE IF b.k = "num" /\ b.n = 0 THEN ZeroDivisionError
    ELSE IF b.k = "inexact" THEN Inexact
    ELSE RMul(a, IF b.n < 0 THEN [k |-> "num", n |-> -b.d, d |-> -b.n]
                 ELSE [k |-> "num", n |-> b.d, d |-> b.n])

\* a < b for exact values; when the cross products leave the model's range
\* the integer parts decide, and equal integer parts have no value here
RLess(a, b) ==
    IF Fits(a.n, b.d) /\ Fits(b.n, a.d) THEN a.n * b.d < b.n * a.d
    ELSE LET fa == a.n \div a.d
             fb == b.n \div b.d
         IN  fa < fb \/ (fa = fb /\ CHOOSE v \in {} : TRUE)

RMin(a, b) ==
    IF a.k # "num" \/ b.k # "num" THEN (IF a.k # "num" THEN a ELSE b)
    ELSE IF RLess(b, a) THEN b ELSE a

RECURSIVE NSum(_, _, _)
\* the sum of the numerators of seq[lo..hi]
NSum(seq, lo, hi) ==
    IF lo > hi THEN 0
    ELSE IF lo = hi THEN seq[lo].n
    ELSE LET mid == (lo + hi) \div 2
         IN  NSum(seq, lo, mid) + NSum(seq, mid + 1, hi)

RECURSIVE RSplit(_, _, _)
\* sum(seq[lo..hi]) of values none of which is an error; exact addition is
\* associative, so the sum is split in halves to keep the evaluation
\* shallow, and a half outside the model's range decides the sum
RSplit(seq, lo, hi) ==
    IF lo > hi THEN Whole(0)
    ELSE IF lo = hi THEN seq[lo]
    ELSE LET mid == (lo + hi) \div 2
             right == RSplit(seq, mid + 1, hi)
         IN  IF right.k = "inexact" THEN Inexact
             ELSE RAdd(RSplit(seq, lo, mid), right)

\* sum(seq[lo..hi]): over one denominator the numerators are added
RSum(seq, lo, hi) ==
    IF /\ lo <= hi
       /\ \A j \in lo..hi :
              /\ seq[j].k = "num"
              /\ seq[j].d = seq[lo].d
              /\ Abs(seq[j].n) <= Limit \div (hi - lo + 1)
    THEN Num(NSum(seq, lo, hi), seq[lo].d)
    ELSE RSplit(seq, lo, hi)

(***************************************************************************)
(* IEEE-754 binary64 values in [0, 1] and their products with small        *)
(* integers, for int(bar_length * progress).  A value is 0.M * 2^exp with  *)
(* M a mantissa of 53 bits, the first one 1, kept in three limbs h, m, l   *)
(* of 17, 18 and 18 bits.  A quotient comes from six steps of long         *)
(* division in base 2^9 and a product is formed limb by limb; both are     *)
(* rounded to nearest, ties to even.  The operators are exact for divisors *)
(* below 2^20 and integer factors below 2^12.                              *)
(***************************************************************************)
Mantissa == 53
LimbBits == 18

Limb == 2^LimbBits
TopBits == Mantissa - 2 * LimbBits

FZero == [h |-> 0, m |-> 0, l |-> 0, exp |-> 0]
FOne == [h |-> 2^(TopBits - 1), m |-> 0, l |-> 0, exp |-> 1]

\* the number of bits of x >= 0
BitLen(x) == CHOOSE n \in 0..30 : x < 2^n /\ (n = 0 \/ x >= 2^(n - 1))

\* the mantissa h, m, l, plus one in the last place when `up`
Rounded(h, m, l, exp, up) ==
    LET l1 == l + (IF up THEN 1 ELSE 0)
        m1 == m + l1 \div Limb
        h1 == h + m1 \div Limb
    IN  IF h1 = 2^TopBits
        THEN [h |-> 2^(TopBits - 1), m |-> 0, l |-> 0, exp |-> exp + 1]
        ELSE [h |-> h1, m |-> m1 % Limb, l |-> l1 % Limb, exp |-> exp]

\* the least k with c * 2^k / t in [1/2, 1), for 0 < c < t
Normalize(c, t) ==
    LET k0 == IF BitLen(t) - BitLen(c) >= 1 THEN BitLen(t) - BitLen(c) - 1 ELSE 0
    IN  IF 2 * c * 2^k0 >= t THEN k0 ELSE k0 + 1

\* one step of the long division of r by t in base 2^9, for r < t < 2^20:
\* the next digit and the remainder
DivStep(r, t) == [digit |-> (r * 512) \div t, rest |-> (r * 512) % t]

\* float(c) / float(t), correctly rounded, for integers 0 <= c, 0 < t: the
\* first 54 bits of the quotient in three limbs q1, q2, q3, of which the last
\* bit is the guard bit and the remainder the sticky bit
FDivide(c, t) ==
    IF c = 0 THEN FZero
    ELSE IF c = t THEN FOne
    ELSE IF c > t THEN [FOne EXCEPT !.exp = 2]  \* some value > 1
    ELSE LET k == Normalize(c, t)
             s1 == DivStep(c * 2^k, t)
             s2 == DivStep(s1.rest, t)
             s3 == DivStep(s2.rest, t)
             s4 == DivStep(s3.rest, t)
             s5 == DivStep(s4.rest, t)
             s6 == DivStep(s5.rest, t)
             q1 == s1.digit * 512 + s2.digit
             q2 == s3.digit * 512 + s4.digit
             q3 == s5.digit * 512 + s6.digit
             guard == q3 % 2 = 1
             odd == (q3 \div 2) % 2 = 1
             sticky == s6.rest > 0
         IN  Rounded(q1 \div 2,
                     q2 \div 2 + (q1 % 2) * (Limb \div 2),
                     q3 \div 2 + (q2 % 2) * (Limb \div 2),
                     -k, guard /\ (sticky \/ odd))

\* min(f, 1.0)
FMin1(f) == IF f.exp >= 2 THEN FOne ELSE f

\* float(n) * f, correctly rounded, for an integer 1 <= n < 2^12: the exact
\* product on three limbs, of which the last s bits are rounded away
FTimesInt(n, f) ==
    IF f.h = 0 THEN FZero
    ELSE LET lo == n * f.l
             mid == n * f.m + lo \div Limb
             hi == n * f.h + mid \div Limb
             s == BitLen(hi) - TopBits
             cut == 2^s
             fill == 2^(LimbBits - s)
             rl == ((mid % Limb) % cut) * fill + (lo % Limb) \div cut
             guard == s > 0 /\ ((lo % Limb) \div (cut \div 2)) % 2 = 1
             sticky == s > 1 /\ (lo % Limb) % (cut \div 2) # 0
         IN  Rounded(hi \div cut,
                     (hi % cut) * fill + (mid % Limb) \div cut,
                     rl,
                     f.exp + s, guard /\ (sticky \/ rl % 2 = 1))

\* int(f): truncation, for 0 <= f < 2^30
FTrunc(f) ==
    IF f.exp <= 0 THEN 0
    ELSE IF f.exp <= TopBits THEN f.h \div 2^(TopBits - f.exp)
    ELSE f.h * 2^(f.exp - TopBits)
             + f.m \div 2^(TopBits + LimbBits - f.exp)

(***************************************************************************)
(* AdvancedProgressBar                                                     *)
(***************************************************************************)
DefaultBarLength == 40
Capacity == 100

FilledCell == "#"
EmptyCell == "-"

\* ch * n: the empty string when n <= 0
Repeat(ch, n) == [j \in 1..n |-> ch]

\* progress = min(current / self.total, 1.0), as an exact value
Progress(cur, tot) == RMin(RDiv(Whole(cur), Whole(tot)), Whole(1))

\* filled_length = int(self.bar_length * progress), in binary64
FilledLength(len, cur, tot) == FTrunc(FTimesInt(len, FMin1(FDivide(cur, tot))))

\* bar = filled cells then empty cells
Bar(len, filled) == Repeat(FilledCell, filled) \o Repeat(EmptyCell, len - filled)

Speed(elapsed, cur) ==
    IF elapsed > 0 THEN RDiv(Whole(cur), Whole(elapsed)) ELSE Whole(0)

\* Eta without the guard on progress
EtaUnguarded(elapsed, progress, cur, tot, samples) ==
    IF elapsed > 0
    THEN IF Len(samples) >= 2
         THEN LET avg_iteration_time ==
                      RDiv(RSum(samples, 1, Len(samples)), Whole(Len(samples)))
              IN  IF cur > 0 /\ tot # cur
                  THEN RMul(avg_iteration_time, Whole(tot - cur))
                  ELSE Whole(0)
         ELSE RDiv(RMul(Whole(elapsed), RSub(Whole(1), progress)), progress)
    ELSE Whole(0)

\* eta, from the samples recorded before this call; the average is a finite
\* number, so its product with total - current = 0 is 0.0
Eta(elapsed, progress, cur, tot, samples) ==
    IF elapsed > 0
    THEN IF Len(samples) >= 2
         THEN LET avg_iteration_time ==
                      RDiv(RSum(samples, 1, Len(samples)), Whole(Len(samples)))
              IN  IF cur > 0 /\ tot # cur
                  THEN RMul(avg_iteration_time, Whole(tot - cur))
                  ELSE Whole(0)
         ELSE IF RLess(Whole(0), progress)
              THEN RDiv(RMul(Whole(elapsed), RSub(Whole(1), progress)), progress)
              ELSE Whole(0)
    ELSE Whole(0)

\* Record with pop() in place of pop(0): the newest entry is dropped
RecordDropNewest(samples, elapsed, cur) ==
    IF cur > 0
    THEN LET appended == Append(samples, RDiv(Whole(elapsed), Whole(cur)))
         IN  IF Len(appended) > Capacity
             THEN SubSeq(appended, 1, Len(appended) - 1) ELSE appended
    ELSE samples

\* the sample buffer after the call: append, then drop the oldest beyond 100
Record(samples, elapsed, cur) ==
    IF cur > 0
    THEN LET appended == Append(samples, RDiv(Whole(elapsed), Whole(cur)))
         IN  IF Len(appended) > Capacity THEN Tail(appended) ELSE appended
    ELSE samples

NoLine == [progress |-> Whole(0), percent |-> Whole(0), bar |-> <<>>,
           speed |-> Whole(0), eta |-> Whole(0), elapsed |-> 0, shown |-> FALSE]

\* AdvancedProgressBar.__init__(total, bar_length=40)
Construct(tot, len) ==
    /\ total' = tot
    /\ bar_length' = len
    /\ start_time' = now
    /\ current' = 0
    /\ iteration_times' = <<>>
    /\ line' = NoLine

\* AdvancedProgressBar.update(current).  A division by zero leaves
\* ZeroDivisionError in `error`; otherwise `error` becomes `after`, the
\* exception (or "none") of the code that follows the call in the caller.
Update(c, after) ==
    LET elapsed_time == now - start_time
        progress == Progress(c, total)
        eta == IF IsError(progress) THEN ZeroDivisionError
               ELSE Eta(elapsed_time, progress, c, total, iteration_times)
    IN  /\ current' = c
        /\ IF IsError(eta)
           THEN /\ error' = "ZeroDivisionError"
                /\ UNCHANGED <<iteration_times, line>>
           ELSE /\ error' = after
                /\ line' = [progress |-> progress,
                            percent |-> RMul(progress, Whole(100)),
                            bar |-> Bar(bar_length,
                                        FilledLength(bar_length, c, total)),
                            speed |-> Speed(elapsed_time, c),
                            eta |-> eta,
                            elapsed |-> elapsed_time,
                            shown |-> TRUE]
                /\ iteration_times' = Record(iteration_times, elapsed_time, c)
        /\ UNCHANGED <<total, bar_length, start_time>>

\* AdvancedProgressBar.finish()
Finish(after) == Update(total, after)

(***************************************************************************)
(* The environment: the clock advances.                                    *)
(***************************************************************************)
Tick(cap) ==
    /\ now < cap
    /\ now' = now + 1
    /\ UNCHANGED <<barVars, error, recorded, pc, cycleVars, mainVars, reportVars>>

(***************************************************************************)
(* A direct caller of the bar: any update(current) and finish() calls.     *)
(***************************************************************************)
NoMetrics == [total_time |-> Whole(0), cpu_time |-> Whole(0),
              cycles_per_second |-> Whole(0), seconds_per_cycle |-> Whole(0),
              cpu_efficiency |-> Whole(0), rating |-> "none"]

NoResult == [start |-> 0, batch_start |-> 0,
             total_time_sec |-> Whole(0), cpu_time_sec |-> Whole(0)]

NoBar ==
    /\ total = 0 /\ bar_length = 0 /\ start_time = 0 /\ current = 0
    /\ iteration_times = <<>> /\ line = NoLine

NoRun ==
    /\ batch_size = 0 /\ i = 0 /\ updates = <<>> /\ cycle_times = <<>>

NoReport == metrics = NoMetrics /\ predictions = <<>>

NoDialogue ==
    /\ typed = <<>> /\ cycles_input = <<>> /\ confirm = <<>> /\ output = "none"

NewBar(tot, len) ==
    /\ now = 0
    /\ total = tot /\ bar_length = len /\ start_time = 0 /\ current = 0
    /\ iteration_times = <<>> /\ line = NoLine

InitCaller ==
    /\ pc = "caller"
    /\ error = "none"
    /\ recorded = 0
    /\ num_cycles = 0 /\ NoRun /\ perf = NoResult
    /\ NoDialogue /\ NoReport

CallUpdate(c, cap) ==
    /\ pc = "caller"
    /\ error = "none"
    /\ c > 0 => recorded < cap
    /\ Update(c, "none")
    /\ recorded' = IF c > 0 THEN recorded + 1 ELSE recorded
    /\ UNCHANGED <<now, pc, cycleVars, mainVars, reportVars>>

CallFinish(cap) ==
    /\ pc = "caller"
    /\ error = "none"
    /\ recorded < cap
    /\ Finish("none")
    /\ recorded' = recorded + 1
    /\ UNCHANGED <<now, pc, cycleVars, mainVars, reportVars>>

\* the default length and another one a caller may pass
BarLengths == {22, DefaultBarLength}

InitBar ==
    /\ InitCaller
    /\ \E tot \in 1..MaxTotal : NewBar(tot, DefaultBarLength)

NextBar ==
    \/ Tick(MaxClock)
    \/ \E c \in 0..(total + 1) : CallUpdate(c, MaxCalls)
    \/ CallFinish(MaxCalls)

SpecBar == InitBar /\ [][NextBar]_vars

InitRender ==
    /\ InitCaller
    /\ \E tot \in 1..MaxRenderTotal, len \in BarLengths : NewBar(tot, len)

NextRender ==
    \/ Tick(MaxClock)
    \/ \E c \in 0..(total + 1) : CallUpdate(c, MaxRenderCalls)
    \/ CallFinish(MaxRenderCalls)

SpecRender == InitRender /\ [][NextRender]_vars

InitBuffer ==
    /\ InitCaller
    /\ NewBar(1, DefaultBarLength)

NextBuffer ==
    \/ Tick(MaxRunClock)
    \/ \E c \in 0..total : CallUpdate(c, MaxSamples)

SpecBuffer == InitBuffer /\ [][NextBuffer]_vars

(***************************************************************************)
(* perform_cycles.  One step of the model runs the loop from an iteration  *)
(* that calls update up to the next one: the iterations in between only    *)
(* compute `result`, which nothing reads.                                  *)
(***************************************************************************)
LongCycles == 200

Min2(a, b) == IF a < b THEN a ELSE b
Max2(a, b) == IF a > b THEN a ELSE b

\* batch_size = max(1, min(num_cycles // 100, 10000))
BatchSize(n) == Max2(1, Min2(n \div 100, 10000))

\* the first argument of update in iteration idx, passing i in place of i + 1
LoopArgumentOffByOne(idx) == idx

\* the argument of update in iteration idx
LoopArgument(idx) == idx + 1

\* i % batch_size == 0 or i == num_cycles - 1
FiresUpdate(idx, n, batch) == idx % batch = 0 \/ idx = n - 1

\* the next iteration after idx that calls update; n when the loop is over
NextFiring(idx, n, batch) ==
    IF idx >= n - 1 THEN n ELSE Min2((idx - (idx % batch)) + batch, n - 1)

\* what evaluating i % (num_cycles // 10) raises
SamplingError(n) == IF n \div 10 = 0 THEN "ZeroDivisionError" ELSE "none"

\* i % (num_cycles // 10) == 0 and i > 0, evaluated in the iterations that
\* call update
TakesSample(idx, n) == idx % (n \div 10) = 0 /\ idx > 0

PerformEnter ==
    /\ pc = "perform"
    /\ perf' = [start |-> now, batch_start |-> now,
                total_time_sec |-> Whole(0), cpu_time_sec |-> Whole(0)]
    /\ Construct(num_cycles, DefaultBarLength)
    /\ batch_size' = BatchSize(num_cycles)
    /\ i' = 0
    /\ updates' = <<>>
    /\ cycle_times' = <<>>
    /\ pc' = IF num_cycles > 0 THEN "loop" ELSE "finish"
    /\ UNCHANGED <<now, error, recorded, num_cycles, mainVars, reportVars>>

PerformLoop ==
    /\ pc = "loop"
    /\ FiresUpdate(i, num_cycles, batch_size)
    /\ Update(LoopArgument(i), SamplingError(num_cycles))
    /\ updates' = Append(updates, [value |-> LoopArgument(i), by |-> "loop"])
    /\ IF error' # "none"
       THEN /\ pc' = "raised"
            /\ UNCHANGED <<i, cycle_times, perf>>
       ELSE /\ IF TakesSample(i, num_cycles)
               THEN /\ cycle_times' =
                           Append(cycle_times,
                                  RDiv(Whole(now - perf.batch_start),
                                       Whole(batch_size)))
                    /\ perf' = [perf EXCEPT !.batch_start = now]
               ELSE UNCHANGED <<cycle_times, perf>>
            /\ i' = NextFiring(i, num_cycles, batch_size)
            /\ pc' = IF i' >= num_cycles THEN "finish" ELSE "loop"
    /\ UNCHANGED <<now, recorded, num_cycles, batch_size, mainVars, reportVars>>

PerformFinish ==
    /\ pc = "finish"
    /\ Finish("none")
    /\ updates' = Append(updates, [value |-> total, by |-> "finish"])
    /\ pc' = IF error' # "none" THEN "raised" ELSE "measure"
    /\ UNCHANGED <<now, recorded, num_cycles, batch_size, i, cycle_times, perf,
                   mainVars, reportVars>>

PerformReturn ==
    /\ pc = "measure"
    /\ \E cpu \in 0..(now - perf.start) :
           perf' = [perf EXCEPT !.total_time_sec = Whole(now - perf.start),
                                !.cpu_time_sec = Whole(cpu)]
    /\ pc' = "returned"
    /\ UNCHANGED <<now, barVars, error, recorded, num_cycles, batch_size, i,
                   updates, cycle_times, mainVars, reportVars>>

CycleCounts == (1..MaxCycles) \cup {LongCycles}

InitCycles ==
    /\ pc = "perform"
    /\ now = 0
    /\ error = "none"
    /\ recorded = 0
    /\ num_cycles \in CycleCounts
    /\ NoBar /\ NoRun /\ perf = NoResult
    /\ NoDialogue /\ NoReport

NextCycles ==
    \/ Tick(MaxRunClock)
    \/ PerformEnter
    \/ PerformLoop
    \/ PerformFinish
    \/ PerformReturn

SpecCycles == InitCycles /\ [][NextCycles]_vars

(***************************************************************************)
(* calculate_performance_metrics and display_predictions.                  *)
(***************************************************************************)
\* num_cycles / total_time_sec without the guard total_time_sec > 0
CyclesPerSecondUnguarded(n, t) == RDiv(Whole(n), t)

\* num_cycles / total_time_sec if total_time_sec > 0 else 0
CyclesPerSecond(n, t) ==
    IF RLess(Whole(0), t) THEN RDiv(Whole(n), t) ELSE Whole(0)

\* total_time_sec / num_cycles if num_cycles > 0 else 0
SecondsPerCycle(n, t) == IF n > 0 THEN RDiv(t, Whole(n)) ELSE Whole(0)

\* (cpu_time_sec / total_time_sec) * 100 if total_time_sec > 0 else 0
CpuEfficiency(cpu, t) ==
    IF RLess(Whole(0), t) THEN RMul(RDiv(cpu, t), Whole(100)) ELSE Whole(0)

AtLeast(x, threshold) == ~RLess(x, Whole(threshold))

\* the rating chain with > in place of >=
RatingStrict(cps) ==
    IF RLess(Whole(10000000), cps) THEN "EXTREME"
    ELSE IF RLess(Whole(1000000), cps) THEN "EXCELLENT"
    ELSE IF RLess(Whole(100000), cps) THEN "GREAT"
    ELSE IF RLess(Whole(10000), cps) THEN "GOOD"
    ELSE IF RLess(Whole(1000), cps) THEN "AVERAGE"
    ELSE "SLOW"

Rating(cps) ==
    IF AtLeast(cps, 10000000) THEN "EXTREME"
    ELSE IF AtLeast(cps, 1000000) THEN "EXCELLENT"
    ELSE IF AtLeast(cps, 100000) THEN "GREAT"
    ELSE IF AtLeast(cps, 10000) THEN "GOOD"
    ELSE IF AtLeast(cps, 1000) THEN "AVERAGE"
    ELSE "SLOW"

calculate_performance_metrics(n, t, cpu) ==
    LET cps == CyclesPerSecond(n, t)
    IN  [total_time |-> t,
         cpu_time |-> cpu,
         cycles_per_second |-> cps,
         seconds_per_cycle |-> SecondsPerCycle(n, t),
         cpu_efficiency |-> CpuEfficiency(cpu, t),
         rating |-> IF IsError(cps) THEN "none" ELSE Rating(cps)]

CalculateMetrics ==
    /\ pc = "returned"
    /\ LET m == calculate_performance_metrics(num_cycles, perf.total_time_sec,
                                              perf.cpu_time_sec)
       IN  IF \/ IsError(m.cycles_per_second)
              \/ IsError(m.seconds_per_cycle)
              \/ IsError(m.cpu_efficiency)
           THEN /\ error' = "ZeroDivisionError"
                /\ pc' = "raised"
                /\ UNCHANGED metrics
           ELSE /\ metrics' = m
                /\ pc' = "calculated"
                /\ UNCHANGED error
    /\ UNCHANGED <<now, barVars, recorded, cycleVars, mainVars, predictions>>

test_cycles == <<100, 1000, 10000, 100000, 1000000, 10000000, 100000000>>

\* the tier chain with the seconds tier reaching up to one hour
PredictionTierWide(est) ==
    IF RLess(est, Num(1, 1000)) THEN "microseconds"
    ELSE IF RLess(est, Whole(1)) THEN "milliseconds"
    ELSE IF RLess(est, Whole(3600)) THEN "seconds"
    ELSE "hours"

\* the unit display_predictions prints the estimate in
PredictionTier(est) ==
    IF RLess(est, Num(1, 1000)) THEN "microseconds"
    ELSE IF RLess(est, Whole(1)) THEN "milliseconds"
    ELSE IF RLess(est, Whole(60)) THEN "seconds"
    ELSE IF RLess(est, Whole(3600)) THEN "minutes"
    ELSE "hours"

display_predictions(n, m) ==
    LET shown == SelectSeq(test_cycles, LAMBDA cycles : cycles > n)
    IN  [j \in 1..Len(shown) |->
            LET estimated_time == RMul(m.seconds_per_cycle, Whole(shown[j]))
            IN  [cycles |-> shown[j],
                 estimated_time |-> estimated_time,
                 tier |-> IF estimated_time.k = "num"
                          THEN PredictionTier(estimated_time)
                          ELSE estimated_time.k]]

\* display_detailed_results prints the metrics and changes no state
Display ==
    /\ pc = "calculated"
    /\ predictions' = display_predictions(num_cycles, metrics)
    /\ pc' = "displayed"
    /\ UNCHANGED <<now, barVars, error, recorded, cycleVars, mainVars, metrics>>

MetricCycles ==
    {0, 1, 10, 999, 1000, 1001, 9999, 10000, 99999, 100000, 999999, 1000000,
     9999999, 10000000, 10000001}

MetricTimes ==
    {Whole(0), Num(1, 1000000), Num(1, 1000), Whole(1), Whole(2), Whole(6),
     Whole(10)}

\* arguments whose quotients the bounded arithmetic represents exactly
ExactMetrics(n, t, cpu) ==
    LET m == calculate_performance_metrics(n, t, cpu)
    IN  /\ m.cycles_per_second.k # "inexact"
        /\ m.seconds_per_cycle.k # "inexact"
        /\ m.cpu_efficiency.k # "inexact"
        /\ \A j \in 1..Len(test_cycles) :
               RMul(m.seconds_per_cycle, Whole(test_cycles[j])).k # "inexact"

InitMetrics ==
    /\ pc = "returned"
    /\ now = 0
    /\ error = "none"
    /\ recorded = 0
    /\ num_cycles \in MetricCycles
    /\ \E t \in MetricTimes, cpu \in MetricTimes :
           /\ ExactMetrics(num_cycles, t, cpu)
           /\ perf = [NoResult EXCEPT !.total_time_sec = t, !.cpu_time_sec = cpu]
    /\ NoBar /\ NoRun
    /\ NoDialogue /\ NoReport

NextMetrics ==
    \/ CalculateMetrics
    \/ Display

SpecMetrics == InitMetrics /\ [][NextMetrics]_vars

(***************************************************************************)
(* main and the module's last two statements.  Texts are sequences of      *)
(* one-character strings.                                                  *)
(***************************************************************************)
Whitespace == {" ", "\t"}
Digits == <<"0", "1", "2", "3", "4", "5", "6", "7", "8", "9">>
\* the letters of the answers the model types
UpperCase == <<"E", "N", "O", "S", "Y">>
LowerCase == <<"e", "n", "o", "s", "y">>

IsDigit(ch) == \E d \in 1..Len(Digits) : Digits[d] = ch
DigitValue(ch) == (CHOOSE d \in 1..Len(Digits) : Digits[d] = ch) - 1

\* str.strip()
Strip(text) ==
    LET kept == {k \in 1..Len(text) : text[k] \notin Whitespace}
    IN  IF kept = {} THEN <<>>
        ELSE SubSeq(text, CHOOSE k \in kept : \A other \in kept : k <= other,
                          CHOOSE k \in kept : \A other \in kept : k >= other)

\* str.replace(ch, '')
Remove(text, ch) == SelectSeq(text, LAMBDA x : x # ch)

\* str.lower()
Lower(text) ==
    [k \in 1..Len(text) |->
        IF \E u \in 1..Len(UpperCase) : UpperCase[u] = text[k]
        THEN LowerCase[CHOOSE u \in 1..Len(UpperCase) : UpperCase[u] = text[k]]
        ELSE text[k]]

Unsigned(text) ==
    IF text # <<>> /\ text[1] \in {"+", "-"} THEN Tail(text) ELSE text

\* whether int(text) returns: an optional sign, then digits that single
\* underscores may separate, with whitespace allowed around
IsInteger(text) ==
    LET body == Unsigned(Strip(text))
    IN  /\ body # <<>>
        /\ \A k \in 1..Len(body) : IsDigit(body[k]) \/ body[k] = "_"
        /\ body[1] # "_" /\ body[Len(body)] # "_"
        /\ \A k \in 1..(Len(body) - 1) : ~(body[k] = "_" /\ body[k + 1] = "_")

RECURSIVE Decimal(_, _)
Decimal(digits, k) ==
    IF k = 0 THEN 0 ELSE 10 * Decimal(digits, k - 1) + DigitValue(digits[k])

\* the value int(text) returns
IntValue(text) ==
    LET stripped == Strip(text)
        digits == Remove(Unsigned(stripped), "_")
        magnitude == Decimal(digits, Len(digits))
    IN  IF stripped[1] = "-" THEN -magnitude ELSE magnitude

\* num_cycles <= 0, with 0 let through
RejectedNegative(value) == value < 0

\* num_cycles <= 0
Rejected(value) == value <= 0

\* num_cycles > 1_000_000
NeedsConfirmation(value) == value > 1000000

Yes == {<<"y">>, <<"y", "e", "s">>}

\* the header is printed before the try statement is entered
MainStart ==
    /\ pc = "main_start"
    /\ pc' = "prompt"
    /\ UNCHANGED <<now, barVars, error, recorded, cycleVars, mainVars, reportVars>>

ReadCycles(entered) ==
    /\ pc = "prompt"
    /\ typed' = entered
    /\ cycles_input' = Strip(typed')
    /\ LET text == Remove(Remove(cycles_input', ","), " ")
       IN  IF cycles_input' = <<>>
           THEN /\ output' = "empty"
                /\ pc' = "prompt"
                /\ UNCHANGED num_cycles
           ELSE IF ~IsInteger(text)
           THEN /\ output' = "invalid"
                /\ pc' = "prompt"
                /\ UNCHANGED num_cycles
           ELSE /\ num_cycles' = IntValue(text)
                /\ IF Rejected(num_cycles')
                   THEN /\ output' = "not_positive"
                        /\ pc' = "prompt"
                   ELSE /\ output' = "accepted"
                        /\ pc' = IF NeedsConfirmation(num_cycles')
                                 THEN "confirm" ELSE "perform"
    /\ UNCHANGED <<now, barVars, error, recorded, batch_size, i, updates,
                   cycle_times, perf, confirm, reportVars>>

ReadConfirm(entered) ==
    /\ pc = "confirm"
    /\ typed' = entered
    /\ confirm' = Lower(typed')
    /\ IF confirm' \notin Yes
       THEN /\ output' = "cancelled"
            /\ pc' = "press_enter"
       ELSE /\ pc' = "perform"
            /\ UNCHANGED output
    /\ UNCHANGED <<now, barVars, error, recorded, cycleVars, cycles_input,
                   reportVars>>

\* main returns: the progress bar, the measurements and the metrics of the
\* run were its locals and are gone
ReleaseRun ==
    /\ total' = 0 /\ bar_length' = 0 /\ start_time' = 0 /\ current' = 0
    /\ iteration_times' = <<>> /\ line' = NoLine
    /\ batch_size' = 0 /\ i' = 0 /\ updates' = <<>> /\ cycle_times' = <<>>
    /\ perf' = NoResult
    /\ metrics' = NoMetrics /\ predictions' = <<>>

\* the closing banner, after which main returns
MainComplete ==
    /\ pc = "displayed"
    /\ output' = "complete"
    /\ pc' = "press_enter"
    /\ ReleaseRun
    /\ UNCHANGED <<now, error, recorded, num_cycles, typed, cycles_input,
                   confirm>>

\* except Exception as e
MainExcept ==
    /\ pc = "raised"
    /\ output' = "error_reported"
    /\ pc' = "press_enter"
    /\ ReleaseRun
    /\ UNCHANGED <<now, error, recorded, num_cycles, typed, cycles_input,
                   confirm>>

\* the positions inside the try statement of main
InTry ==
    {"prompt", "confirm", "perform", "loop", "finish", "measure", "returned",
     "calculated", "displayed"}

\* the positions outside it: the header before, the handlers, the last input()
OutsideTry == {"main_start", "raised", "press_enter"}

\* Ctrl-C while the try body runs: except KeyboardInterrupt
InterruptInTry ==
    /\ pc \in InTry
    /\ error' = "KeyboardInterrupt"
    /\ output' = "interrupted"
    /\ pc' = "press_enter"
    /\ ReleaseRun
    /\ UNCHANGED <<now, recorded, num_cycles, typed, cycles_input, confirm>>

\* Ctrl-C anywhere else: no handler is in scope
InterruptOutside ==
    /\ pc \in OutsideTry
    /\ error' = "KeyboardInterrupt"
    /\ pc' = "crashed"
    /\ UNCHANGED <<now, barVars, recorded, cycleVars, mainVars, reportVars>>

\* input() at end of file: caught by except Exception inside the try
\* statement, unhandled at the last input()
EndOfInput ==
    /\ pc \in {"prompt", "confirm", "press_enter"}
    /\ error' = "EOFError"
    /\ pc' = IF pc = "press_enter" THEN "crashed" ELSE "raised"
    /\ UNCHANGED <<now, barVars, recorded, cycleVars, mainVars, reportVars>>

\* input("Press Enter to exit...") returns and the module ends
PressEnter ==
    /\ pc = "press_enter"
    /\ pc' = "exited"
    /\ UNCHANGED <<now, barVars, error, recorded, cycleVars, mainVars, reportVars>>

CycleInputs ==
    {<<>>, <<" ">>, <<"a">>, <<"1", ".", "5">>, <<",">>, <<"0">>,
     <<"-", "3">>, <<"5">>, <<" ", "1", ",", "2", "\t">>, <<"+", "1", "_", "1">>,
     <<"1", ",", "0", "0", "0", ",", "0", "0", "0">>,
     <<"1", "0", "0", "0", "0", "0", "1">>}

ConfirmInputs ==
    {<<>>, <<"y">>, <<"Y", "e", "S">>, <<"n">>, <<"N", "O">>, <<"y", "e">>,
     <<" ", "y">>, <<"y", "e", "s", " ">>}

InitMain ==
    /\ pc = "main_start"
    /\ now = 0
    /\ error = "none"
    /\ recorded = 0
    /\ num_cycles = 0
    /\ NoBar /\ NoRun /\ perf = NoResult
    /\ NoDialogue /\ NoReport

NextMain ==
    \/ Tick(MaxRunClock)
    \/ MainStart
    \/ \E entered \in CycleInputs : ReadCycles(entered)
    \/ \E entered \in ConfirmInputs : ReadConfirm(entered)
    \/ PerformEnter
    \/ PerformLoop
    \/ PerformFinish
    \/ PerformReturn
    \/ CalculateMetrics
    \/ Display
    \/ MainComplete
    \/ MainExcept
    \/ InterruptInTry
    \/ InterruptOutside
    \/ EndOfInput
    \/ PressEnter

SpecMain == InitMain /\ [][NextMain]_vars

(***************************************************************************)
(* The claims.                                                             *)
(***************************************************************************)
Done == {"measure", "returned"}

\* C1: for every positive num_cycles, perform_cycles raises no error, and
\* when it returns current = total = num_cycles and the last progress line
\* shows exactly 100%.
C1_RunsToCompletion ==
    /\ pc # "raised"
    /\ pc \in Done =>
           /\ current = total
           /\ total = num_cycles
           /\ line.percent = Whole(100)

\* the most recent Capacity entries of the samples followed by the new one
C2_MostRecent(samples, sample) ==
    LET all == Append(samples, sample)
    IN  [k \in 1..Min2(Len(all), Capacity) |->
            all[k + (Len(all) - Min2(Len(all), Capacity))]]

\* C2: the sample buffer never holds more than 100 entries, and every
\* update call with current > 0 leaves in it the most recent samples in
\* insertion order: the new sample goes to the end and, when the buffer was
\* full, the oldest entry is the one removed.  A call with current = 0
\* leaves the buffer as it was.
C2_BoundedBuffer ==
    /\ [](Len(iteration_times) <= 100)
    /\ [][now' = now =>
             iteration_times' =
                 IF current' > 0
                 THEN C2_MostRecent(iteration_times,
                                    Num(now - start_time, current'))
                 ELSE iteration_times]_vars

\* more than 100 samples were recorded and the full buffer tells its oldest
\* entry from its newest
C2_Witness ==
    /\ recorded > 100
    /\ Len(iteration_times) = 100
    /\ iteration_times[1] # iteration_times[100]

C3_Count(cells, cell) == Cardinality({k \in 1..Len(cells) : cells[k] = cell})

\* C3: for total > 0 and 0 <= current <= total, update(current) reports
\* 100 * current / total percent and draws floor(bar_length * current /
\* total) filled cells, filled and empty cells together being bar_length.
C3_Rendering ==
    (line.shown /\ current <= total) =>
        /\ line.percent = Num(100 * current, total)
        /\ C3_Count(line.bar, FilledCell) = (bar_length * current) \div total
        /\ C3_Count(line.bar, FilledCell) + C3_Count(line.bar, EmptyCell)
               = bar_length

C4_Average(samples) == RDiv(RSum(samples, 1, Len(samples)), Whole(Len(samples)))

\* the ETA as the claim states it
C4_Eta(elapsed, cur, tot, samples) ==
    IF cur = 0 \/ elapsed <= 0 THEN Whole(0)
    ELSE IF Len(samples) >= 2
    THEN RMul(C4_Average(samples), Whole(tot - cur))
    ELSE RDiv(RMul(Whole(elapsed), Num(tot - cur, tot)), Num(cur, tot))

\* C4: update(current) with 0 <= current <= total takes the ETA from the
\* samples recorded before the call: average * (total - current) with two or
\* more samples, elapsed * (1 - progress) / progress with fewer, and 0 when
\* progress or current is 0 or no time has elapsed; it never divides by zero.
C4_EtaPolicy ==
    [][(now' = now /\ current' <= total) =>
           /\ error' = "none"
           /\ line'.eta.k = "num"
           /\ line'.eta =
                  C4_Eta(now - start_time, current', total, iteration_times)]_vars

\* an update chose the average of the samples before it, with work left
C4_Witness ==
    /\ Len(iteration_times) >= 3
    /\ current > 0 /\ current < total
    /\ line.elapsed > 0
    /\ line.eta = RMul(C4_Average(SubSeq(iteration_times, 1,
                                         Len(iteration_times) - 1)),
                       Whole(total - current))
    /\ line.eta.n > 0

C5_Thresholds ==
    <<[at |-> 1000, tier |-> "AVERAGE"], [at |-> 10000, tier |-> "GOOD"],
      [at |-> 100000, tier |-> "GREAT"], [at |-> 1000000, tier |-> "EXCELLENT"],
      [at |-> 10000000, tier |-> "EXTREME"]>>

\* the tier of the highest threshold that cps meets or exceeds
C5_Tier(cps) ==
    LET met == {k \in 1..Len(C5_Thresholds) :
                    cps.n >= C5_Thresholds[k].at * cps.d}
    IN  IF met = {} THEN "SLOW"
        ELSE C5_Thresholds[CHOOSE k \in met : \A other \in met : other <= k].tier

Reported == {"calculated", "displayed"}

\* C5: the rating is the tier of the highest threshold cycles_per_second
\* meets or exceeds (1e7 EXTREME, 1e6 EXCELLENT, 1e5 GREAT, 1e4 GOOD, 1e3
\* AVERAGE, below that SLOW): a value exactly at a threshold gets that tier
\* and 999 gets SLOW.
C5_RatingTiers ==
    pc \in Reported =>
        /\ metrics.rating = C5_Tier(metrics.cycles_per_second)
        /\ \A k \in 1..Len(C5_Thresholds) :
               metrics.cycles_per_second = Whole(C5_Thresholds[k].at) =>
                   metrics.rating = C5_Thresholds[k].tier
        /\ metrics.cycles_per_second = Whole(999) => metrics.rating = "SLOW"

\* a throughput exactly at the highest threshold was rated
C5_Witness ==
    /\ pc \in Reported
    /\ metrics.cycles_per_second = Whole(10000000)
    /\ metrics.rating = "EXTREME"

\* 0.001 seconds per cycle were measured over 1000 cycles
C6_Case ==
    /\ pc = "displayed"
    /\ num_cycles = 1000
    /\ metrics.seconds_per_cycle = Num(1, 1000)

C6_Line(tier) ==
    \E j \in 1..Len(predictions) :
        /\ predictions[j].cycles = 100000
        /\ predictions[j].estimated_time = Whole(100)
        /\ predictions[j].tier = tier

\* C6 as stated: with 0.001 seconds per cycle measured over 1000 cycles, the
\* prediction for 100000 cycles is 100.0 seconds, printed in the seconds tier.
C6_SecondsTier == C6_Case => C6_Line("seconds")

\* C6, amended: with 0.001 seconds per cycle measured over 1000 cycles, the
\* prediction for 100000 cycles is 100.0 seconds, printed in the minutes
\* tier (60 <= 100 < 3600).
C6_MinutesTier == C6_Case => C6_Line("minutes")

\* the predictions of that case were printed
C6_Witness == C6_Case /\ Len(predictions) = 5

\* the typed lines that denote a positive integer, with the integer
C7_PositiveInputs ==
    {[text |-> <<"5">>, value |-> 5],
     [text |-> <<" ", "1", ",", "2", "\t">>, value |-> 12],
     [text |-> <<"+", "1", "_", "1">>, value |-> 11],
     [text |-> <<"1", ",", "0", "0", "0", ",", "0", "0", "0">>,
      value |-> 1000000],
     [text |-> <<"1", "0", "0", "0", "0", "0", "1">>, value |-> 1000001]}

\* the typed answers that are "y" or "yes" in some letter case
C7_YesAnswers == {<<"y">>, <<"Y", "e", "S">>}

Running == {"perform", "loop", "finish", "measure", "returned", "calculated",
            "displayed"}

\* a step in which input() returned a line to the code at this position
C7_Reads(at) == pc = at /\ now' = now /\ error' = "none"

\* C7: perform_cycles starts only after the prompt received a positive
\* integer; an empty, non-integer or non-positive line leads to another
\* prompt, never to an error; a count over 1,000,000 runs only after the
\* answer "y" or "yes" in any letter case, and any other answer cancels the
\* run with no cycle executed.
C7_InputValidation ==
    /\ [](pc \in Running =>
              /\ num_cycles > 0
              /\ \E r \in C7_PositiveInputs :
                     /\ r.value = num_cycles
                     /\ IF num_cycles > 1000000
                        THEN typed \in C7_YesAnswers
                        ELSE typed = r.text)
    /\ [](output = "cancelled" => updates = <<>> /\ pc \notin Running)
    /\ [][C7_Reads("prompt") =>
              IF \E r \in C7_PositiveInputs : r.text = typed'
              THEN \E r \in C7_PositiveInputs :
                       /\ r.text = typed'
                       /\ num_cycles' = r.value
                       /\ pc' = IF r.value > 1000000 THEN "confirm"
                                ELSE "perform"
              ELSE pc' = "prompt"]_vars
    /\ [][C7_Reads("confirm") =>
              IF typed' \in C7_YesAnswers
              THEN pc' = "perform"
              ELSE pc' = "press_enter" /\ output' = "cancelled"]_vars

\* a count over 1,000,000 was confirmed in upper case and ran to its end
C7_Witness ==
    /\ pc = "returned"
    /\ num_cycles > 1000000
    /\ typed = <<"Y", "e", "S">>

\* C8: no exception escapes the program: an interrupt at any point of the
\* execution and any other runtime error is caught at the top level and
\* reported, and the run ends cleanly.
C8_NothingEscapes ==
    /\ pc # "crashed"
    /\ error # "none" => output \in {"interrupted", "error_reported"}
                            \/ pc = "raised"

\* C9: with total_time_sec = 0, whatever num_cycles and cpu_time_sec are,
\* calculate_performance_metrics raises no division error and returns
\* cycles_per_second = 0 and cpu_efficiency = 0.
C9_ZeroTime ==
    perf.total_time_sec = Whole(0) =>
        /\ pc # "raised"
        /\ error = "none"
        /\ pc \in Reported =>
               /\ metrics.cycles_per_second = Whole(0)
               /\ metrics.cpu_efficiency = Whole(0)

\* metrics were computed for a run that took no time but some CPU time
C9_Witness ==
    /\ pc \in Reported
    /\ perf.total_time_sec = Whole(0)
    /\ perf.cpu_time_sec # Whole(0)
    /\ num_cycles > 0

\* C10: the values perform_cycles passes to update, the loop's calls and
\* then the one finish makes, never decrease, lie in 1..num_cycles and start
\* with 1; the loop's calls alone strictly increase.
C10_UpdateValues ==
    /\ \A k \in 1..Len(updates) : updates[k].value \in 1..num_cycles
    /\ updates # <<>> => updates[1].value = 1 /\ updates[1].by = "loop"
    /\ \A k \in 1..(Len(updates) - 1) :
           /\ updates[k].value <= updates[k + 1].value
           /\ updates[k].by = "loop"
           /\ updates[k + 1].by = "loop" =>
                  updates[k].value < updates[k + 1].value
    /\ pc \in Done =>
           /\ Len(updates) >= 2
           /\ updates[Len(updates)].by = "finish"
           /\ updates[Len(updates)].value = num_cycles

\* a run in batches ended: the loop skipped values, and finish repeated the
\* loop's last value
C10_Witness ==
    /\ pc = "returned"
    /\ batch_size > 1
    /\ Len(updates) < num_cycles
    /\ updates[Len(updates) - 1].value = updates[Len(updates)].value

====
